---- MODULE Spec2Model ----
(***************************************************************************)
(* Ride dispatch back end: the ride life cycle and the captain            *)
(* availability flag, as implemented by services/ride.service.js, the     *)
(* ride controller (confirmRide .. updateRideStatus), the socket          *)
(* 'ride:status' handler and the captain controller.                      *)
(*                                                                        *)
(* Every handler is an async function; the event loop runs the code       *)
(* between two awaits without interruption, so each database call         *)
(* (findOne, findById, save, findByIdAndUpdate) is one atomic step and    *)
(* the steps of different requests interleave freely.  A request in       *)
(* flight is a record in procs: the document it loaded (its snapshot)     *)
(* and the await it is suspended at (pc).                                 *)
(*                                                                        *)
(* ride.save() is the mongoose save of a loaded document: it writes the   *)
(* paths the handler assigned (not the whole document) and runs the       *)
(* schema validators on the loaded document first.                        *)
(***************************************************************************)
EXTENDS Naturals, FiniteSets, Sequences, TLC

\* ---------------------------------------------------------------- bounds
\* requests received and environment events (a socket connecting or
\* disconnecting, an availability update, an arrival time passing) in one
\* behaviour
MaxEvents == 2

\* the documents and the concurrent requests of the model
Captains == {1, 2}
Users == {1}
Rides == {1}
Procs == {1, 2}

\* ------------------------------------------------------------ vocabulary
NoCaptain == 0
NoCode == 0
NoReason == ""
DefaultReason == "Cancelled by user"
\* the verification codes rides are created with, and one that no ride has
Codes == {123456}
WrongCode == 654321
Reasons == {"changed plans"}

\* vehicle classes of rides; every captain of the model drives a car
VehicleTypes == {"car", "moto"}
VehicleOf == [c \in Captains |-> "car"]
\* a user id that names no user
NoUser == 0
\* a rider who has no ride
OtherUser == 2

\* who can receive an event: each captain's and each rider's channel
Subscribers == {<<"Captain", c>> : c \in Captains} \cup {<<"User", u>> : u \in Users}
\* the events a request has emitted: how many each channel was sent
NoNotice == [s \in Subscribers |-> 0]

\* estimated-arrival windows, in minutes
ConfirmEta == 10
OnTheWayEta == 15

RIDE_STATUS == [REQUESTED |-> "requested", ACCEPTED |-> "accepted",
                ON_THE_WAY |-> "on-the-way", IN_PROGRESS |-> "in-progress",
                COMPLETED |-> "completed", CANCELLED |-> "cancelled"]

Statuses == {"requested", "accepted", "on-the-way", "in-progress",
             "completed", "cancelled"}

\* "none": the ride id names no document
NoRide == "none"

\* the transition table of the socket 'ride:status' handler
validTransitions(s) ==
    CASE s = "requested" -> {"accepted", "cancelled"}
      [] s = "accepted" -> {"on-the-way", "cancelled"}
      [] s = "on-the-way" -> {"in-progress", "cancelled"}
      [] s = "in-progress" -> {"completed", "cancelled"}
      [] s = "completed" -> {}
      [] s = "cancelled" -> {}

\* a copy of the table that would also let an accepted ride be started
validTransitionsSkipping(s) ==
    CASE s = "requested" -> {"accepted", "cancelled"}
      [] s = "accepted" -> {"on-the-way", "in-progress", "cancelled"}
      [] s = "on-the-way" -> {"in-progress", "cancelled"}
      [] s = "in-progress" -> {"completed", "cancelled"}
      [] s = "completed" -> {}
      [] s = "cancelled" -> {}

\* the copy of the table in updateRideStatus
validTransitionsHttp(s) ==
    CASE s = "requested" -> {"accepted", "cancelled"}
      [] s = "accepted" -> {"on-the-way", "cancelled"}
      [] s = "on-the-way" -> {"in-progress", "cancelled"}
      [] s = "in-progress" -> {"completed", "cancelled"}
      [] s = "completed" -> {}
      [] s = "cancelled" -> {}

\* a wider filter, which would let cancelRide match a completed ride too
CancellableWide == {RIDE_STATUS.REQUESTED, RIDE_STATUS.ACCEPTED, RIDE_STATUS.COMPLETED}

\* cancelRide: status: { $in: [REQUESTED, ACCEPTED] }
CancellableStatuses == {RIDE_STATUS.REQUESTED, RIDE_STATUS.ACCEPTED}

\* a wider filter, which would let rateRide match a cancelled ride too
RateableWide == {RIDE_STATUS.COMPLETED, RIDE_STATUS.CANCELLED}

\* rateRide: status: RIDE_STATUS.COMPLETED
RateableStatuses == {RIDE_STATUS.COMPLETED}

\* the `data` argument of a status update: absent, or an object that may
\* carry otp and reason
NoData == [present |-> FALSE, otp |-> NoCode, reason |-> NoReason]
EmptyData == [NoData EXCEPT !.present = TRUE]

\* the handlers read data.otp for 'in-progress' and data.reason for
\* 'cancelled' and do not read data for any other status; the 'cancelled'
\* updates of the model carry no reason of their own
DatasFor(status) ==
    CASE status = "in-progress" ->
           {NoData, EmptyData} \cup
           {[EmptyData EXCEPT !.otp = c] : c \in Codes \cup {WrongCode}}
      [] status = "cancelled" -> {NoData, EmptyData}
      [] OTHER -> {EmptyData}

\* rides, captains: the stored documents; procs: the requests in flight;
\* events: requests and environment events so far;
\* fare: a fare computation, its inputs and what each call site produced;
\* routeCache: the entries of the route cache; route: the route call running;
\* suggest: the autocomplete call running and the geocode cache;
\* generated: a verification code being generated for a new ride;
\* location: a captain's stored location and the location updates under way
VARIABLES rides, captains, procs, events, fare, routeCache, route,
          suggest, generated, location

vars == <<rides, captains, procs, events, fare, routeCache, route,
          suggest, generated, location>>

\* the state of the ride life cycle, and the state of the fare and route
\* functions, which the handlers of the life cycle are modelled without
dispatchVars == <<rides, captains, procs, events>>
pricingVars == <<fare, routeCache, route>>
\* the state of the services that stand beside both
serviceVars == <<suggest, generated, location>>

\* ----------------------------------------------------------------- fares
\* ride.service.js computes a fare in two places: getFare (the quote, one
\* amount per vehicle class) and createRide (the amount stored with the
\* ride).  Distances are in metres and durations in seconds, as the route
\* provider returns them.  The arithmetic is exact: every amount is a
\* fraction n/d until Math.round is applied.
validVehicleTypes == {"auto", "car", "moto"}

baseFare == [auto |-> 30, car |-> 50, moto |-> 20]
perKmRate == [auto |-> 10, car |-> 15, moto |-> 8]
\* {auto: 2, car: 3, moto: 1.5}, in halves
perMinuteRate == [auto |-> 4, car |-> 6, moto |-> 3]

Max(a, b) == IF a >= b THEN a ELSE b
Min(a, b) == IF a <= b THEN a ELSE b

\* Math.round(n / d) of a fraction that is not negative
Round(n, d) == (2 * n + d) \div (2 * d)

\* a late-night window that would end an hour early
SurgeShortNight(currentHour) ==
    IF (currentHour >= 7 /\ currentHour <= 9) \/ (currentHour >= 17 /\ currentHour <= 19)
    THEN 15
    ELSE IF currentHour >= 22 \/ currentHour < 5 THEN 13
    ELSE 10

\* multipliers are in tenths: 15 is 1.5.
\* getFare: surgeMultiplier for new Date().getHours()
GetFareSurge(currentHour) ==
    IF (currentHour >= 7 /\ currentHour <= 9) \/ (currentHour >= 17 /\ currentHour <= 19)
    THEN 15
    ELSE IF currentHour >= 22 \/ currentHour <= 5 THEN 13
    ELSE 10

\* createRide: surgeMultiplier for new Date().getHours()
CreateRideSurge(currentHour) ==
    IF (currentHour >= 7 /\ currentHour <= 9) \/ (currentHour >= 17 /\ currentHour <= 19)
    THEN 15
    ELSE IF currentHour >= 22 \/ currentHour <= 5 THEN 13
    ELSE 10

\* getTrafficMultiplier: multiplier = 1.0, then multiplier *= 1.5 or *= 1.3
TrafficMultiplier(hour) ==
    IF (hour >= 7 /\ hour <= 9) \/ (hour >= 17 /\ hour <= 19) THEN (10 * 15) \div 10
    ELSE IF hour >= 22 \/ hour <= 5 THEN (10 * 13) \div 10
    ELSE 10

\* Math.round((baseFare + km * perKmRate + min * perMinuteRate) * surgeMultiplier)
\* with km = metres / 1000 and min = seconds / 60
FareBeforeLimits(type, metres, seconds, surge) ==
    Round((baseFare[type] * 3000 + metres * perKmRate[type] * 3
           + seconds * perMinuteRate[type] * 25) * surge, 30000)

\* getFare, for one class: the formula on the distance and duration as the
\* route returned them
GetFareBeforeLimits(type, metres, seconds, currentHour) ==
    FareBeforeLimits(type, metres, seconds, GetFareSurge(currentHour))

\* Math.max(fare, base * 2), Math.min(fare, base * 10), Math.round(fare / 10) * 10
GetFareLimits(type, amount) ==
    Round(Min(Max(amount, baseFare[type] * 2), baseFare[type] * 10), 10) * 10

\* createRide: effectiveDistance = Math.max(distanceInKm, 1),
\* effectiveDuration = Math.max(durationInMinutes, 5)
CreateRideBeforeLimits(type, metres, seconds, currentHour) ==
    FareBeforeLimits(type, Max(metres, 1000), Max(seconds, 300),
                     CreateRideSurge(currentHour))

\* finalFare = Math.min(Math.max(fare, minFare), maxFare)
CreateRideLimits(type, amount) ==
    Min(Max(amount, baseFare[type] * 2), baseFare[type] * 10)

\* nothing computed yet (every fare is at least 40 and every multiplier 10)
NoAmount == 0
NoQuote == [type \in validVehicleTypes |-> NoAmount]

\* the routes and the times of day fares are computed for
Distances == {0, 500, 1000, 2000, 15000, 100000}
Durations == {0, 120, 300, 1500, 20000}
Hours == 0 .. 23

\* a fare computation for one route, hour and class before any call
FareInputs(metres, seconds, hour, type) ==
    [distance |-> metres, duration |-> seconds, hour |-> hour, vehicleType |-> type,
     quote |-> NoQuote, quoteBeforeLimits |-> NoQuote, quoteSurge |-> NoAmount,
     stored |-> NoAmount, storedBeforeLimits |-> NoAmount, storedSurge |-> NoAmount,
     multiplier |-> NoAmount, multiplierFrom |-> "none", trafficCache |-> NoAmount]

\* the state of the fare functions while the ride handlers are looked at
NoFare == FareInputs(0, 0, 0, "car")

\* ---------------------------------------------------------------- routes
\* maps.service.js: getDistanceTime and getRouteDetails ask the route
\* provider (OSRM) and keep results in routeCache; createRide calls
\* getRouteDetails in a retry loop.
\* route calls made in one behaviour
MaxRouteCalls == 3
\* getRouteDetails calls of one retry loop that are followed
MaxAttempts == 4
\* const maxRetries = 3
maxRetries == 3

\* the coordinates of a call's two endpoints: two routes between valid
\* points, and endpoints that are not two finite numbers in range
Coordinates == {"A-B", "A-C", "outOfRange", "notNumeric", "tooShort", "tooLong", "missing"}

\* what the endpoints carry: "outOfRange" [200, 95], "notNumeric" ['x', 1],
\* "tooShort" [77.2], "tooLong" [77.2, 28.6, 10], "missing" no coordinates array
Shape(coords) == IF coords \in {"A-B", "A-C"} THEN "valid" ELSE coords

\* what else the endpoint objects carry (the address text)
Labels == {"home", "Home"}
NoLabel == ""

\* `route:${JSON.stringify(pickup)}:${JSON.stringify(destination)}`
DistanceTimeKey(coords, label) == <<"getDistanceTime", coords, label>>
\* `route:${origin.coordinates.coordinates.join(',')}-${destination...join(',')}`
RouteDetailsKey(coords) == <<"getRouteDetails", coords, NoLabel>>

Keys == {DistanceTimeKey(c, l) : c \in Coordinates, l \in Labels}
        \cup {RouteDetailsKey(c) : c \in Coordinates}

\* a result: the provider's route, the provider's route of distance 0 and
\* duration 0 (the two endpoints are one place), the haversine estimate
NoRoute == "none"
Results == {"route", "zero", "estimate"}
\* the cache maps the keys it holds to their results
EmptyCache == [k \in {} |-> NoRoute]

\* routeCache.get(key): undefined for a key the cache does not hold
CacheGet(cache, key) == IF key \in DOMAIN cache THEN cache[key] ELSE NoRoute

\* routeCache.set(key, result)
CacheSet(cache, key, result) ==
    [k \in DOMAIN cache \cup {key} |-> IF k = key THEN result ELSE cache[k]]

\* the entry of key is deleted when its time to live is over
CacheDel(cache, key) == [k \in DOMAIN cache \ {key} |-> cache[k]]

\* what the provider answers: code 'Ok' with a route, code 'Ok' with a
\* route of length 0, or a failure (timeout after 5 s, error status,
\* non-Ok code, no routes)
Answers == {"route", "zero", "fail"}

\* no route call is running; served: the calls received so far
Resting == [op |-> "none", pc |-> "idle", coords |-> "A-B", label |-> NoLabel,
            calls |-> 0, answer |-> "none", attempts |-> 0, retryCount |-> 0,
            outcome |-> "none", result |-> NoRoute, served |-> 0]

\* ---------------------------------------------------------- suggestions
\* maps.service.js getAutoCompleteSuggestions(input, options), and the
\* route GET /get-suggestions with its controller.
\* autocomplete calls made in one behaviour
MaxSuggestCalls == 3

\* the input of a call: none (undefined), or a text
NoInput == "undefined"
Inputs == {NoInput, "", "ab", "abc", "main st"}

\* input.length
InputLength(input) ==
    CASE input = "" -> 0
      [] input = "ab" -> 2
      [] input = "abc" -> 3
      [] input = "main st" -> 7

\* !input || input.length < 3
TooShort(input) == input = NoInput \/ input = "" \/ InputLength(input) < 3

\* query('input').isString().isLength({min: 3})
InputValidated(input) == input # NoInput /\ InputLength(input) >= 3

\* the type parameter of a call
SuggestTypes == {"all", "poi", "street"}

\* ['address', 'poi', 'all'].includes(type) ? type : 'all'
NormalType(type) == IF type \in {"address", "poi", "all"} THEN type ELSE "all"

\* `suggestions:${input}:${country}:${type}`; no call of the model names a country
SuggestKey(input, type) == <<input, type>>
SuggestKeys == {SuggestKey(i, t) : i \in Inputs, t \in SuggestTypes}

\* what the provider answers: an array of places, an empty array, a body
\* that is no array, an array with an element that is null, or a failure
\* (network error, error status)
SuggestAnswers == {"items", "noItems", "notArray", "nullItem", "fail"}

\* what a call returned: a list of suggestions, or the empty list
NoSuggestions == "none"
SuggestResults == {"list", "empty"}

\* no autocomplete call is running; cache: the suggestions entries of
\* geocodeCache; served: the calls received so far
NoSuggest == [via |-> "none", pc |-> "idle", input |-> NoInput, type |-> "all",
              calls |-> 0, cacheOps |-> 0, answer |-> "none", outcome |-> "none",
              result |-> NoSuggestions, cache |-> EmptyCache, served |-> 0]

\* --------------------------------------------------- verification codes
\* generateOTP(length = 6), called by createRide as generateOTP(6), and the
\* otp path of the ride schema.
\* the outcomes of the random source that are followed: 0, DrawStep, ...
MaxDraws == 120
DrawStep == 9973
Draws == {k * DrawStep : k \in 0 .. MaxDraws} \cup {899999, 900000}

\* a string of decimal digits is the sequence of its characters
Digits == <<"0", "1", "2", "3", "4", "5", "6", "7", "8", "9">>

\* Number.prototype.toString() of an integer that is not negative
RECURSIVE NumberToString(_)
NumberToString(n) ==
    IF n < 10 THEN <<Digits[n + 1]>>
    ELSE Append(NumberToString(n \div 10), Digits[(n % 10) + 1])

\* a lower limit that would let shorter numbers through
OtpMinZero(length) == 0

\* const min = Math.pow(10, length - 1)
OtpMin(length) == 10 ^ (length - 1)

\* const max = Math.pow(10, length) - 1
OtpMax(length) == (10 ^ length) - 1

\* crypto.randomInt(min, max): min + x % (max - min) for the random x drawn
randomInt(min, max, x) == min + (x % (max - min))

\* const otp = crypto.randomInt(min, max + 1).toString()
generateOTP(length, x) == NumberToString(randomInt(OtpMin(length), OtpMax(length) + 1, x))

\* the schema's validator of otp: /^\d{6}$/.test(v)
OtpValidator(v) ==
    /\ Len(v) = 6
    /\ \A i \in 1 .. Len(v) : \E d \in 1 .. 10 : v[i] = Digits[d]

\* no code is being generated
NoOtp == [pc |-> "idle", otp |-> <<>>]

\* ------------------------------------------------------ captain location
\* socket 'update:location' and the captain controller's updateLocation.
\* location updates one captain's device sends in one behaviour
MaxUpdates == 3

\* where the device is when it sends an update
Positions == {"A", "B"}
NoPosition == "none"

\* the captain document's location and lastLocationUpdate (server time),
\* from: which of the device's updates (1 the first it sent) wrote them;
\* now: the server's clock; sent: the updates the device has sent;
\* updates: those sent and not yet stored
NoLocation == [stored |-> NoPosition, lastLocationUpdate |-> 0, from |-> 0,
               now |-> 0, sent |-> 0, updates |-> {}]

\* none of these services is running
ServicesIdle ==
    /\ suggest = NoSuggest
    /\ generated = NoOtp
    /\ location = NoLocation

\* ------------------------------------------------------------ documents
\* a ride document (models/ride.model.js); eta is the estimated-arrival
\* window stored (0: unset), etaExpired whether that time has passed
EmptyRide == [status |-> NoRide, user |-> 0, captain |-> NoCaptain, otp |-> NoCode,
              eta |-> 0, etaExpired |-> FALSE, arrived |-> FALSE, ended |-> FALSE,
              reason |-> NoReason]

\* a request slot that runs nothing
Idle == [kind |-> "none", pc |-> "idle", ctl |-> FALSE, ride |-> 0,
         callerType |-> "none", callerId |-> 0, target |-> "none",
         otp |-> NoCode, reason |-> NoReason,
         snapStatus |-> NoRide, snapCaptain |-> NoCaptain, snapEtaSet |-> FALSE,
         vehicle |-> "none", fareKnown |-> FALSE,
         result |-> "none", emitted |-> NoNotice, noDrivers |-> NoUser]

\* the ride documents a behaviour may start from: none yet, or the ride
\* as the usual flow leaves it at each stage short of a terminal one
\* (create; confirmRide by captain 1; 'on-the-way'; 'in-progress' with the
\* ride's code)
RideAt(stage) ==
    LET created == [EmptyRide EXCEPT !.status = RIDE_STATUS.REQUESTED, !.user = 1,
                                     !.otp = 123456]
        accepted == [created EXCEPT !.status = RIDE_STATUS.ACCEPTED, !.captain = 1,
                                    !.eta = ConfirmEta]
        onTheWay == [accepted EXCEPT !.status = RIDE_STATUS.ON_THE_WAY,
                                     !.eta = OnTheWayEta]
        inProgress == [onTheWay EXCEPT !.status = RIDE_STATUS.IN_PROGRESS,
                                       !.arrived = TRUE]
    IN CASE stage = NoRide -> EmptyRide
         [] stage = "requested" -> created
         [] stage = "accepted" -> accepted
         [] stage = "on-the-way" -> onTheWay
         [] stage = "in-progress" -> inProgress

InitStages == {NoRide, "requested", "accepted", "on-the-way", "in-progress"}

\* every captain's socket is connected (io.use set isAvailable: true and
\* lastSeen: now; fresh: lastSeen lies within the last 5 minutes); a
\* captain who accepted a ride was marked unavailable by confirmRide
Init ==
    /\ \E stage \in [Rides -> InitStages] :
          /\ rides = [r \in Rides |-> RideAt(stage[r])]
          /\ \A r1, r2 \in Rides :
                r1 # r2 => rides[r1].captain = NoCaptain \/ rides[r2].captain = NoCaptain
    /\ captains = [c \in Captains |->
                     [isAvailable |-> \A r \in Rides : rides[r].captain # c,
                      connected |-> TRUE, fresh |-> TRUE]]
    /\ procs = [p \in Procs |-> Idle]
    /\ events = 0
    /\ fare = NoFare
    /\ routeCache = EmptyCache
    /\ route = Resting
    /\ ServicesIdle

\* ------------------------------------------------------------- requests
InFlight(p) == procs[p].pc \notin {"idle", "done"}

\* request slots are interchangeable: a request takes the first slot that
\* runs nothing
Free(p) ==
    /\ ~InFlight(p)
    /\ \A q \in Procs : q < p => InFlight(q)
    /\ events < MaxEvents

\* a request that begins: what it was called with
Begin(kind, r, ct, cid, target) ==
    [Idle EXCEPT !.kind = kind, !.ride = r, !.callerType = ct, !.callerId = cid,
                 !.target = target]

\* the request has loaded ride document d
Loaded(rec, d) ==
    [rec EXCEPT !.snapStatus = d.status, !.snapCaptain = d.captain,
                !.snapEtaSet = (d.eta # 0)]

\* the request has returned with outcome res: what remains of it is which
\* call it was, how it ended and, when it succeeded, whether a rider or a
\* captain made it and, for an accept, which captain
Finish(rec, res) ==
    [Idle EXCEPT !.kind = rec.kind, !.pc = "done", !.ride = rec.ride,
                 !.callerType = IF res = "ok" THEN rec.callerType ELSE "none",
                 !.callerId = IF res = "ok" /\ rec.target = "accepted"
                              THEN rec.callerId ELSE 0,
                 !.target = rec.target, !.result = res]

\* the request has returned after emitting em
FinishWith(rec, res, em) ==
    [Finish(rec, res) EXCEPT !.vehicle = rec.vehicle, !.emitted = em]

Suspend(rec, pc) == [rec EXCEPT !.pc = pc]

\* the records of requests that returned earlier are dropped when the next
\* request or environment event arrives; those of requests still running stay
Running == [q \in Procs |-> IF InFlight(q) THEN procs[q] ELSE Idle]

\* an environment event, or a request that is one step
Event ==
    /\ events < MaxEvents
    /\ events' = events + 1
    /\ procs' = Running
    /\ UNCHANGED <<pricingVars, serviceVars>>

\* a step of a request in flight
Step(p, rec) ==
    /\ procs' = [procs EXCEPT ![p] = rec]
    /\ events' = events
    /\ UNCHANGED <<pricingVars, serviceVars>>

\* a request arrives and runs up to its first await
Start(p, rec) ==
    /\ Free(p)
    /\ procs' = [Running EXCEPT ![p] = rec]
    /\ events' = events + 1
    /\ UNCHANGED <<pricingVars, serviceVars>>

\* captainModel.findByIdAndUpdate(id, {isAvailable: v, lastSeen: now});
\* findByIdAndUpdate of a null id matches no document
SetAvailable(id, v) ==
    IF id \in Captains
    THEN [captains EXCEPT ![id].isAvailable = v, ![id].fresh = TRUE]
    ELSE captains

\* ----------------------------------------------------------- createRide
\* the controller up to the service's rideModel.create: the body is
\* validated, the user is looked up, getFare is awaited ("Calculate fare
\* first"), then the service awaits the route details; each can fail and
\* ends the request.  None of these reads or writes a ride or a captain.
\* checks that would let a request whose fare computation failed through
PrechecksWithoutFare(valid, u, fareOk, routeOk) ==
    IF ~valid THEN "badRequest"
    ELSE IF u \notin Users THEN "userNotFound"
    ELSE IF ~routeOk THEN "routeFailed"
    ELSE "pass"

CreateRidePrechecks(valid, u, fareOk, routeOk) ==
    IF ~valid THEN "badRequest"
    ELSE IF u \notin Users THEN "userNotFound"
    ELSE IF ~fareOk THEN "fareFailed"
    ELSE IF ~routeOk THEN "routeFailed"
    ELSE "pass"

\* POST create: the request runs up to rideModel.create
CreateRide(p, u, vt, valid, fareOk, routeOk) ==
    /\ \E r \in Rides : rides[r].status = NoRide
    /\ \A q \in Procs : InFlight(q) => procs[q].kind # "createRide"
    /\ LET rec == [Begin("createRide", 0, "User", u, RIDE_STATUS.REQUESTED)
                     EXCEPT !.vehicle = vt,
                            !.fareKnown = valid /\ u \in Users /\ fareOk]
           res == CreateRidePrechecks(valid, u, fareOk, routeOk)
       IN Start(p, IF res # "pass" THEN Finish(rec, res) ELSE Suspend(rec, "create"))
    /\ UNCHANGED <<rides, captains>>

\* rideModel.create({user, ..., otp, status: REQUESTED}): a new document,
\* with no captain
CreateRideCreate(p) ==
    /\ procs[p].pc = "create"
    /\ \E code \in Codes :
          LET r == CHOOSE x \in Rides :
                      /\ rides[x].status = NoRide
                      /\ \A y \in Rides : rides[y].status = NoRide => x <= y
          IN /\ rides' = [rides EXCEPT ![r] =
                            [EmptyRide EXCEPT !.status = RIDE_STATUS.REQUESTED,
                                              !.user = procs[p].callerId, !.otp = code]]
             /\ Step(p, Suspend([procs[p] EXCEPT !.ride = r], "findCaptains"))
    /\ UNCHANGED captains

\* captainModel.find({isAvailable: true, 'vehicle.vehicleType', lastSeen >= now - 5 min})
Eligible(vt) ==
    {c \in Captains : captains[c].isAvailable /\ VehicleOf[c] = vt /\ captains[c].fresh}

\* 'new:ride': captainModel.find({lastSeen: {$gte: now - 5 min}})
ActiveCaptains == {c \in Captains : captains[c].fresh}

\* vehicleType argument left at its default (null)
AnyVehicle == "any"

\* getCaptainsInTheRadius(lat, lng, radius, vehicleType):
\* captainModel.find({location: {$near ...}, isAvailable: true [, vehicleType]});
\* every captain of the model is within the radius
getCaptainsInTheRadius(vt) ==
    {c \in Captains : captains[c].isAvailable /\ (vt # AnyVehicle => VehicleOf[c] = vt)}

\* a socket of the subscriber is open (riders keep theirs open)
Listening(s) == s[1] = "User" \/ captains[s[2]].connected

\* io.emit(event) executed n times: every open socket is sent the event n times
Broadcast(n) == [s \in Subscribers |-> IF Listening(s) THEN n ELSE 0]

\* io.to(captain.socketId).emit(event) for each captain of cs that has a socketId
ToSockets(cs) ==
    [s \in Subscribers |->
       IF s[1] = "Captain" /\ s[2] \in cs /\ captains[s[2]].connected THEN 1 ELSE 0]

\* the controller after the service returned: find the available captains,
\* then availableCaptains.forEach(captain => if (captain.socketId) io.emit('new-ride'))
CreateRideNotify(p) ==
    /\ procs[p].pc = "findCaptains"
    /\ LET found == {c \in Eligible(procs[p].vehicle) : captains[c].connected}
       IN Step(p, FinishWith(procs[p], "ok", Broadcast(Cardinality(found))))
    /\ UNCHANGED <<rides, captains>>

\* io.to(`User-${userId}`).emit('error', {message: 'No drivers are currently
\* available. ...'}): the request has returned after sending rider u's
\* channel the no-drivers notice
FinishNoDrivers(rec, u) ==
    [FinishWith(rec, "noDrivers", NoNotice) EXCEPT !.noDrivers = u]

\* socket.on('new:ride', rideData): captainModel.find({lastSeen >= now - 5 min});
\* none found: the no-drivers notice to the rider's room;
\* else io.to(captain.socketId).emit('new-ride') for each one found
NewRide(p, u, vt, valid) ==
    /\ LET rec == [Begin("newRide", 0, "User", u, RIDE_STATUS.REQUESTED)
                     EXCEPT !.vehicle = vt]
           found == ActiveCaptains
       IN Start(p, IF ~valid \/ u = NoUser THEN Finish(rec, "badRequest")
                   ELSE IF found = {} THEN FinishNoDrivers(rec, u)
                   ELSE FinishWith(rec, "ok", ToSockets(found)))
    /\ UNCHANGED <<rides, captains>>

\* ------------------------------------------------------------ ride.save
\* the handler assigned estimatedArrivalTime before saving
SetsEta(rec) ==
    \/ rec.kind = "confirmRide"
    \/ rec.kind \in {"rideStatus", "updateRideStatus"} /\ rec.target = "on-the-way"

\* estimatedArrivalTime's validator (v > new Date()) runs on the loaded
\* value at every save: a loaded arrival time that has passed fails it
SaveValid(rec, d) == SetsEta(rec) \/ ~rec.snapEtaSet \/ ~d.etaExpired

\* a status update that would clear the code once it has been used
WrittenClearingCode(rec, d) == [d EXCEPT !.status = rec.target, !.otp = NoCode]

\* the paths a status update assigned, by the new status
WrittenByStatus(rec, d) ==
    CASE rec.target = "accepted" ->
           [d EXCEPT !.status = rec.target, !.captain = rec.callerId]
      [] rec.target = "on-the-way" ->
           [d EXCEPT !.status = rec.target, !.eta = OnTheWayEta, !.etaExpired = FALSE]
      [] rec.target = "in-progress" ->
           [d EXCEPT !.status = rec.target, !.arrived = TRUE]
      [] rec.target = "completed" ->
           [d EXCEPT !.status = rec.target, !.ended = TRUE]
      [] rec.target = "cancelled" ->
           [d EXCEPT !.status = rec.target, !.reason = rec.reason]

\* the stored document d after the save of request rec: the paths the
\* handler assigned are overwritten, every other path keeps its stored value
\* (rateRide assigns rating and review, which are no paths of the schema)
Written(rec, d) ==
    CASE rec.kind = "confirmRide" ->
           [d EXCEPT !.captain = rec.callerId, !.status = RIDE_STATUS.ACCEPTED,
                     !.eta = ConfirmEta, !.etaExpired = FALSE]
      [] rec.kind = "startRide" ->
           [d EXCEPT !.status = RIDE_STATUS.IN_PROGRESS, !.arrived = TRUE]
      [] rec.kind = "endRide" ->
           [d EXCEPT !.status = RIDE_STATUS.COMPLETED, !.ended = TRUE]
      [] rec.kind = "cancelRide" ->
           [d EXCEPT !.status = RIDE_STATUS.CANCELLED,
                     !.reason = IF rec.reason # NoReason THEN rec.reason ELSE d.reason]
      [] rec.kind \in {"rideStatus", "updateRideStatus"} -> WrittenByStatus(rec, d)
      [] rec.kind = "rateRide" -> d

\* the handler emits 'ride:status:updated' (the controllers: 'ride:started',
\* 'ride:completed', 'ride:cancelled') once its writes are done; the
\* service functions called on their own emit nothing
Emits(rec) ==
    \/ rec.kind \in {"rideStatus", "updateRideStatus", "endRide", "cancelRide"}
    \/ rec.kind \in {"confirmRide", "startRide"} /\ rec.ctl
    \/ rec.kind = "rateRide"

\* the channels the handler emits to: the ride's rider and the captain of
\* the handler's own document (endRide: the rider only; rateRide:
\* 'new-rating' to the captain only)
Notices(rec) ==
    LET c == CASE rec.kind = "endRide" -> NoCaptain
               [] rec.kind \in {"confirmRide", "startRide"} -> rec.callerId
               [] rec.kind = "cancelRide" -> rec.snapCaptain
               [] rec.target = "accepted" -> rec.callerId
               [] OTHER -> rec.snapCaptain
        u == IF rec.kind = "rateRide" THEN NoUser ELSE rides[rec.ride].user
    IN [s \in Subscribers |-> IF s = <<"User", u>> \/ s = <<"Captain", c>> THEN 1 ELSE 0]

\* the handler's return after its last write: the emits, which can throw
\* (emitted FALSE), then the response
Respond(rec, emitted) ==
    IF ~Emits(rec) THEN Finish(rec, "ok")
    ELSE IF emitted THEN FinishWith(rec, "ok", Notices(rec))
    ELSE Finish(rec, "emitError")

\* a wrong handling of a failed emit, which would put the loaded document back
RevertOnEmitFailure(before, after) == before

\* the stored document when an emit after the save has thrown: the catch
\* block only answers with the error
AfterEmitFailure(before, after) == after

\* await ride.save()
SaveRide(p) ==
    /\ procs[p].pc = "saveRide"
    /\ LET rec == procs[p]
           d == rides[rec.ride]
       IN \/ /\ ~SaveValid(rec, d)
             /\ Step(p, Finish(rec, "validationError"))
             /\ UNCHANGED <<rides, captains>>
          \/ /\ SaveValid(rec, d)
             /\ \E emitted \in BOOLEAN :
                   /\ ~emitted => Emits(rec) /\ rec.kind # "confirmRide"
                   /\ rides' = [rides EXCEPT ![rec.ride] =
                                  IF emitted THEN Written(rec, d)
                                  ELSE AfterEmitFailure(d, Written(rec, d))]
                   /\ Step(p, IF rec.kind = "confirmRide"
                              THEN Suspend(rec, "markUnavailable")
                              ELSE Respond(rec, emitted))
             /\ UNCHANGED captains

\* time passes: the stored estimated arrival time is no longer in the future
EtaExpires(r) ==
    /\ rides[r].eta # 0
    /\ ~rides[r].etaExpired
    /\ rides' = [rides EXCEPT ![r].etaExpired = TRUE]
    /\ Event
    /\ UNCHANGED captains

\* ---------------------------------------------------------- confirmRide
\* a wider filter, which would let confirmRide load an accepted ride too
FindNotYetStarted(rec) ==
    LET d == rides[rec.ride]
    IN IF d.status \notin {RIDE_STATUS.REQUESTED, RIDE_STATUS.ACCEPTED}
       THEN Finish(rec, "notFound")
       ELSE Suspend(Loaded(rec, d), "checkCaptain")

\* rideModel.findOne({_id, status: REQUESTED})
FindRequested(rec) ==
    LET d == rides[rec.ride]
    IN IF d.status # RIDE_STATUS.REQUESTED
       THEN Finish(rec, "notFound")
       ELSE Suspend(Loaded(rec, d), "checkCaptain")

\* the controller (ctl) first checks the captain, then calls the service;
\* the service starts at findOne
ConfirmRide(p, r, c, ctl) ==
    /\ LET rec == [Begin("confirmRide", r, "Captain", c, "accepted") EXCEPT !.ctl = ctl]
       IN Start(p, IF ctl
                   THEN IF ~captains[c].isAvailable
                        THEN Finish(rec, "unavailable")
                        ELSE Suspend(rec, "findRide")
                   ELSE FindRequested(rec))
    /\ UNCHANGED <<rides, captains>>

ConfirmFindRide(p) ==
    /\ procs[p].pc = "findRide"
    /\ Step(p, FindRequested(procs[p]))
    /\ UNCHANGED <<rides, captains>>

\* captainModel.findById(captain._id): !captainDoc.isAvailable
ConfirmCheckCaptain(p) ==
    /\ procs[p].pc = "checkCaptain"
    /\ Step(p, IF ~captains[procs[p].callerId].isAvailable
               THEN Finish(procs[p], "unavailable")
               ELSE Suspend(procs[p], "saveRide"))
    /\ UNCHANGED <<rides, captains>>

\* the service's findByIdAndUpdate(captain._id, {isAvailable: false})
ConfirmMarkUnavailable(p) ==
    /\ procs[p].pc = "markUnavailable"
    /\ captains' = SetAvailable(procs[p].callerId, FALSE)
    /\ Step(p, IF procs[p].ctl
               THEN Suspend(procs[p], "ctlMarkUnavailable")
               ELSE Finish(procs[p], "ok"))
    /\ UNCHANGED rides

\* the controller's second findByIdAndUpdate, after the service returned,
\* then the read of the populated ride, the emits and the response
ConfirmCtlMarkUnavailable(p) ==
    /\ procs[p].pc = "ctlMarkUnavailable"
    /\ captains' = SetAvailable(procs[p].callerId, FALSE)
    /\ \E emitted \in BOOLEAN : Step(p, Respond(procs[p], emitted))
    /\ UNCHANGED rides

\* ------------------------------------------------ startRide, endRide, cancelRide
\* findOne({_id, captain, status: ACCEPTED}); ride.otp !== otp.
\* The controller rejects a missing code before calling the service.
StartRide(p, r, c, otp, ctl) ==
    /\ LET rec == [Begin("startRide", r, "Captain", c, "in-progress")
                     EXCEPT !.ctl = ctl, !.otp = otp]
           d == rides[r]
       IN Start(p, IF ctl /\ otp = NoCode
                   THEN Finish(rec, "badRequest")
                   ELSE IF ~(d.status = RIDE_STATUS.ACCEPTED /\ d.captain = c)
                   THEN Finish(rec, "notFound")
                   ELSE IF d.otp # otp
                   THEN Finish(rec, "invalidCode")
                   ELSE Suspend(Loaded(rec, d), "saveRide"))
    /\ UNCHANGED <<rides, captains>>

\* findOne({_id, captain, status: IN_PROGRESS})
EndRide(p, r, c) ==
    /\ LET rec == Begin("endRide", r, "Captain", c, "completed")
           d == rides[r]
       IN Start(p, IF ~(d.status = RIDE_STATUS.IN_PROGRESS /\ d.captain = c)
                   THEN Finish(rec, "notFound")
                   ELSE Suspend(Loaded(rec, d), "saveRide"))
    /\ UNCHANGED <<rides, captains>>

\* findOne({_id, user, status: {$in: [REQUESTED, ACCEPTED]}})
CancelRide(p, r, u, reason) ==
    /\ LET rec == [Begin("cancelRide", r, "User", u, "cancelled") EXCEPT !.reason = reason]
           d == rides[r]
       IN Start(p, IF ~(d.status \in CancellableStatuses /\ d.user = u)
                   THEN Finish(rec, "notFound")
                   ELSE Suspend(Loaded(rec, d), "saveRide"))
    /\ UNCHANGED <<rides, captains>>

\* findOne({_id: rideId, user: userId, status: COMPLETED}); ride.rating =
\* rating; ride.save(); then the controller's 'new-rating' and response
RateRide(p, r, u) ==
    /\ LET rec == Begin("rateRide", r, "User", u, "none")
           d == rides[r]
       IN Start(p, IF ~(d.status \in RateableStatuses /\ d.user = u)
                   THEN Finish(rec, "notFound")
                   ELSE Suspend(Loaded(rec, d), "saveRide"))
    /\ UNCHANGED <<rides, captains>>

\* ------------------------------------- 'ride:status' and updateRideStatus
\* what the handler does after findById returned d: the transition check
\* against the loaded status, then the switch on the new status up to its
\* first await
StatusSwitch(rec, d, data, table) ==
    IF d.status = NoRide THEN Finish(rec, "notFound")
    ELSE IF rec.target \notin table THEN Finish(rec, "invalidTransition")
    ELSE CASE rec.target = "accepted" ->
                IF rec.callerType # "Captain" THEN Finish(rec, "forbidden")
                ELSE Suspend(rec, "updateCaptain")
           [] rec.target = "on-the-way" ->
                IF rec.callerType # "Captain" THEN Finish(rec, "forbidden")
                ELSE Suspend(rec, "saveRide")
           [] rec.target = "in-progress" ->
                IF rec.callerType # "Captain" THEN Finish(rec, "forbidden")
                ELSE IF ~data.present THEN Finish(rec, "typeError")
                ELSE IF data.otp # NoCode /\ d.otp # data.otp
                THEN Finish(rec, "invalidCode")
                ELSE Suspend(rec, "saveRide")
           [] rec.target = "completed" ->
                IF rec.callerType # "Captain" THEN Finish(rec, "forbidden")
                ELSE Suspend(rec, "updateCaptain")
           [] rec.target = "cancelled" ->
                IF ~data.present THEN Finish(rec, "typeError")
                ELSE IF d.captain # NoCaptain THEN Suspend(rec, "updateCaptain")
                ELSE Suspend(rec, "saveRide")

\* the request of handler via ("socket": 'ride:status', "http":
\* updateRideStatus) from its arrival to its first await after findById,
\* or to its return
StatusArrives(via, r, ct, cid, status, data) ==
    LET d == rides[r]
        rec == [Begin(IF via = "socket" THEN "rideStatus" ELSE "updateRideStatus",
                      r, ct, cid, status)
                  EXCEPT !.otp = IF status = "in-progress" THEN data.otp ELSE NoCode,
                         !.reason = IF status # "cancelled" THEN NoReason
                                    ELSE IF data.reason # NoReason THEN data.reason
                                    ELSE DefaultReason]
    IN StatusSwitch(Loaded(rec, d), d, data,
                    IF via = "socket" THEN validTransitions(d.status)
                    ELSE validTransitionsHttp(d.status))

\* a handler that would store what it had assigned when it gives up
SavedAnyway(stored, assigned) == assigned

\* the stored document when the handler returns from inside the switch:
\* ride.status = status was assigned to the loaded document, which is
\* dropped without a save
Unsaved(stored, assigned) == stored

\* the handler returned from inside the switch, after ride.status = status
RejectedInSwitch(rec) ==
    rec.pc = "done" /\ rec.result \in {"forbidden", "typeError", "invalidCode"}

\* socket.on('ride:status', {rideId, status, data}) (via = "socket", sent
\* over the caller's open socket) and updateRideStatus (via = "http")
RideStatus(p, via, r, ct, cid, status, data) ==
    /\ via = "socket" /\ ct = "Captain" => captains[cid].connected
    /\ LET rec == StatusArrives(via, r, ct, cid, status, data)
       IN /\ Start(p, rec)
          /\ rides' = [rides EXCEPT ![r] =
                         IF RejectedInSwitch(rec)
                         THEN Unsaved(rides[r], [rides[r] EXCEPT !.status = status])
                         ELSE rides[r]]
    /\ UNCHANGED captains

\* the findByIdAndUpdate inside the switch, before ride.save():
\* 'accepted' marks the caller unavailable, 'completed' and 'cancelled'
\* mark the loaded ride's captain available
CaptainsAfter(rec) ==
    IF rec.target = "accepted"
    THEN SetAvailable(rec.callerId, FALSE)
    ELSE SetAvailable(rec.snapCaptain, TRUE)

StatusUpdateCaptain(p) ==
    /\ procs[p].pc = "updateCaptain"
    /\ captains' = CaptainsAfter(procs[p])
    /\ Step(p, Suspend(procs[p], "saveRide"))
    /\ UNCHANGED rides

\* ------------------------------------------------------------- captains
\* io.use: a captain's socket authenticates: {socketId, isAvailable: true}
SocketConnect(c) ==
    /\ ~captains[c].connected
    /\ captains' = [captains EXCEPT ![c] = [isAvailable |-> TRUE, connected |-> TRUE,
                                            fresh |-> TRUE]]
    /\ Event
    /\ UNCHANGED rides

\* socket.on('disconnect'): {socketId: null, isAvailable: false}
SocketDisconnect(c) ==
    /\ captains[c].connected
    /\ captains' = [captains EXCEPT ![c] = [isAvailable |-> FALSE, connected |-> FALSE,
                                            fresh |-> TRUE]]
    /\ Event
    /\ UNCHANGED rides

\* updateAvailability: captain.isAvailable = isAvailable; captain.save().
\* req.captain was loaded by authCaptain one await earlier and the save
\* writes the flag only when the assignment changed the loaded value, so
\* the request either stores v at its save or stores nothing; both are
\* this step (v equal to the stored flag stores nothing new)
UpdateAvailability(c, v) ==
    /\ captains' = [captains EXCEPT ![c].isAvailable = v]
    /\ Event
    /\ UNCHANGED rides

\* socket.on('update:lastSeen'): findByIdAndUpdate(id, {lastSeen: now})
UpdateLastSeen(c) ==
    /\ captains[c].connected
    /\ captains' = [captains EXCEPT ![c].fresh = TRUE]
    /\ Event
    /\ UNCHANGED rides

\* time passes: the captain's lastSeen is now older than 5 minutes
LastSeenExpires(c) ==
    /\ captains[c].fresh
    /\ captains' = [captains EXCEPT ![c].fresh = FALSE]
    /\ Event
    /\ UNCHANGED rides


\* ---------------------------------------------------- fare computations
\* no ride, no request: only the fare functions run
FareInit ==
    /\ \E metres \in Distances, seconds \in Durations, hour \in Hours,
          type \in validVehicleTypes : fare = FareInputs(metres, seconds, hour, type)
    /\ rides = [r \in Rides |-> EmptyRide]
    /\ captains = [c \in Captains |-> [isAvailable |-> TRUE, connected |-> TRUE,
                                       fresh |-> TRUE]]
    /\ procs = [p \in Procs |-> Idle]
    /\ events = 0
    /\ routeCache = EmptyCache
    /\ route = Resting
    /\ ServicesIdle

\* getFare(pickup, destination) returns {data: fare, ..., surgeMultiplier}
GetFare ==
    /\ fare.quote = NoQuote
    /\ fare' = [fare EXCEPT
                  !.quoteSurge = GetFareSurge(fare.hour),
                  !.quoteBeforeLimits =
                     [type \in validVehicleTypes |->
                        GetFareBeforeLimits(type, fare.distance, fare.duration, fare.hour)],
                  !.quote =
                     [type \in validVehicleTypes |->
                        GetFareLimits(type, GetFareBeforeLimits(type, fare.distance,
                                                                fare.duration, fare.hour))]]
    /\ UNCHANGED <<dispatchVars, routeCache, route, serviceVars>>

\* createRide from the route details to the fare.amount handed to rideModel.create
CreateRideFare ==
    /\ fare.stored = NoAmount
    /\ LET before == CreateRideBeforeLimits(fare.vehicleType, fare.distance,
                                            fare.duration, fare.hour)
       IN fare' = [fare EXCEPT !.storedSurge = CreateRideSurge(fare.hour),
                               !.storedBeforeLimits = before,
                               !.stored = CreateRideLimits(fare.vehicleType, before)]
    /\ UNCHANGED <<dispatchVars, routeCache, route, serviceVars>>

\* getTrafficMultiplier(coordinates, time): the cached value for
\* (coordinates, hour) if there is one, else the computed one, which is cached
GetTrafficMultiplier ==
    /\ fare.multiplierFrom # "cache"
    /\ fare' = IF fare.trafficCache # NoAmount
               THEN [fare EXCEPT !.multiplier = fare.trafficCache,
                                 !.multiplierFrom = "cache"]
               ELSE [fare EXCEPT !.multiplier = TrafficMultiplier(fare.hour),
                                 !.multiplierFrom = "computed",
                                 !.trafficCache = TrafficMultiplier(fare.hour)]
    /\ UNCHANGED <<dispatchVars, routeCache, route, serviceVars>>

\* trafficCache = new NodeCache({stdTTL: 300}): the entry is 5 minutes old
TrafficCacheExpires ==
    /\ fare.trafficCache # NoAmount
    /\ fare' = [fare EXCEPT !.trafficCache = NoAmount, !.multiplierFrom = "none"]
    /\ UNCHANGED <<dispatchVars, routeCache, route, serviceVars>>

FareNext ==
    \/ GetFare
    \/ CreateRideFare
    \/ GetTrafficMultiplier
    \/ TrafficCacheExpires


\* ---------------------------------------------------------- route calls
\* no ride, no request, no fare: only the route functions run
RouteInit ==
    /\ routeCache = EmptyCache
    /\ route = Resting
    /\ fare = NoFare
    /\ rides = [r \in Rides |-> EmptyRide]
    /\ captains = [c \in Captains |-> [isAvailable |-> TRUE, connected |-> TRUE,
                                       fresh |-> TRUE]]
    /\ procs = [p \in Procs |-> Idle]
    /\ events = 0
    /\ ServicesIdle

\* calls are made one after the other
CanCall == route.pc \in {"idle", "done"} /\ route.served < MaxRouteCalls

Call(op, coords, label) ==
    [Resting EXCEPT !.op = op, !.coords = coords, !.label = label,
                    !.served = route.served + 1]

\* the call returns result, or throws: outcome "invalidInput" is
\* ApiError(400), "error" any other error
Returns(rec, outcome, result) ==
    [rec EXCEPT !.pc = "done", !.outcome = outcome, !.result = result]

\* await axios.get(osrmUrl, {timeout: 5000})
Asks(rec) == [rec EXCEPT !.pc = "provider"]

\* getDistanceTime(pickup, destination) up to the provider call: the cache
\* is read first; reading the coordinates of an endpoint without them
\* throws a TypeError and a NaN coordinate throws 'Invalid coordinates',
\* both rethrown by the outer catch as a plain Error
GetDistanceTime(coords, label) ==
    /\ CanCall
    /\ LET rec == Call("getDistanceTime", coords, label)
           cached == CacheGet(routeCache, DistanceTimeKey(coords, label))
       IN route' = IF cached # NoRoute THEN Returns(rec, "ok", cached)
                   ELSE IF Shape(coords) \in {"missing", "notNumeric", "tooShort"}
                   THEN Returns(rec, "error", NoRoute)
                   ELSE Asks(rec)
    /\ UNCHANGED <<routeCache, fare, dispatchVars, serviceVars>>

\* getRouteDetails(origin, destination) up to the provider call: both
\* coordinates must be arrays of length 2, else ApiError(400); then the
\* cache is read
RouteDetailsStart(rec) ==
    LET cached == CacheGet(routeCache, RouteDetailsKey(rec.coords))
    IN IF Shape(rec.coords) \in {"missing", "tooShort", "tooLong"}
       THEN Returns(rec, "invalidInput", NoRoute)
       ELSE IF cached # NoRoute THEN Returns(rec, "ok", cached)
       ELSE Asks(rec)

GetRouteDetails(coords) ==
    /\ CanCall
    /\ route' = RouteDetailsStart(Call("getRouteDetails", coords, NoLabel))
    /\ UNCHANGED <<routeCache, fare, dispatchVars, serviceVars>>

\* createRide's catch block: retryCount++, then the error after maxRetries
\* or the wait before the next attempt
Caught(rec) ==
    IF rec.retryCount + 1 = maxRetries
    THEN Returns([rec EXCEPT !.retryCount = @ + 1], "error", NoRoute)
    ELSE [rec EXCEPT !.retryCount = @ + 1, !.pc = "backoff"]

\* if (routeDetails && routeDetails.distance && routeDetails.duration) break;
\* otherwise the while loop goes round again
Checked(rec, result) ==
    IF result = "route" THEN Returns(rec, "ok", result)
    ELSE [rec EXCEPT !.pc = "loop", !.result = result]

\* one turn of the loop up to the provider call of its getRouteDetails
Attempt(rec) ==
    LET turn == [rec EXCEPT !.attempts = @ + 1]
        called == RouteDetailsStart(turn)
    IN IF called.pc = "provider" THEN called
       ELSE IF called.outcome = "ok" THEN Checked(turn, called.result)
       ELSE Caught(turn)

\* createRide from its coordinates check to the first getRouteDetails
CreateRideRoute(coords) ==
    /\ CanCall
    /\ LET rec == Call("createRide", coords, NoLabel)
       IN route' = IF Shape(coords) = "missing" THEN Returns(rec, "error", NoRoute)
                   ELSE Attempt(rec)
    /\ UNCHANGED <<routeCache, fare, dispatchVars, serviceVars>>

\* the loop goes round: at once after a result without distance or
\* duration, after the wait when getRouteDetails threw
CreateRideRetry ==
    /\ route.pc \in {"loop", "backoff"}
    /\ route.attempts < MaxAttempts
    /\ route' = Attempt(route)
    /\ UNCHANGED <<routeCache, fare, dispatchVars, serviceVars>>

\* the provider's answer, or the timeout, reaches the call that waits for
\* it; coordinates that name no place on earth are answered with an error
ProviderResponds(answer) ==
    /\ route.pc = "provider"
    /\ Shape(route.coords) \in {"outOfRange", "notNumeric"} => answer = "fail"
    /\ LET rec == [route EXCEPT !.calls = @ + 1, !.answer = answer]
           dtKey == DistanceTimeKey(rec.coords, rec.label)
           rdKey == RouteDetailsKey(rec.coords)
       IN CASE rec.op = "getDistanceTime" ->
                 LET result == IF answer = "fail" THEN "estimate" ELSE answer
                 IN /\ routeCache' = CacheSet(routeCache, dtKey, result)
                    /\ route' = Returns(rec, "ok", result)
            [] rec.op = "getRouteDetails" ->
                 IF answer = "fail"
                 THEN /\ route' = Returns(rec, "error", NoRoute)
                      /\ UNCHANGED routeCache
                 ELSE /\ routeCache' = CacheSet(routeCache, rdKey, answer)
                      /\ route' = Returns(rec, "ok", answer)
            [] rec.op = "createRide" ->
                 IF answer = "fail"
                 THEN /\ route' = Caught(rec)
                      /\ UNCHANGED routeCache
                 ELSE /\ routeCache' = CacheSet(routeCache, rdKey, answer)
                      /\ route' = Checked(rec, answer)
    /\ UNCHANGED <<fare, dispatchVars, serviceVars>>

\* routeCache = new NodeCache({stdTTL: 3600}): the entry is an hour old
RouteCacheExpires(key) ==
    /\ key \in DOMAIN routeCache
    /\ routeCache' = CacheDel(routeCache, key)
    /\ UNCHANGED <<route, fare, dispatchVars, serviceVars>>

RouteNext ==
    \/ \E coords \in Coordinates, label \in Labels : GetDistanceTime(coords, label)
    \/ \E coords \in Coordinates : GetRouteDetails(coords)
    \/ \E coords \in Coordinates : CreateRideRoute(coords)
    \/ CreateRideRetry
    \/ \E answer \in Answers : ProviderResponds(answer)
    \/ \E key \in Keys : RouteCacheExpires(key)

\* no ride, no captain activity, no request, no fare or route call
NothingElse ==
    /\ rides = [r \in Rides |-> EmptyRide]
    /\ captains = [c \in Captains |-> [isAvailable |-> TRUE, connected |-> TRUE,
                                       fresh |-> TRUE]]
    /\ procs = [p \in Procs |-> Idle]
    /\ events = 0
    /\ fare = NoFare
    /\ routeCache = EmptyCache
    /\ route = Resting

\* ---------------------------------------------------- autocomplete calls
\* only the autocomplete functions run
SuggestInit ==
    /\ ServicesIdle
    /\ NothingElse

\* calls are made one after the other
CanSuggest == suggest.pc \in {"idle", "done"} /\ suggest.served < MaxSuggestCalls

SuggestCall(via, input, type) ==
    [NoSuggest EXCEPT !.via = via, !.input = input, !.type = type,
                      !.cache = suggest.cache, !.served = suggest.served + 1]

\* the call returns result (outcome "ok": the service returned, the
\* controller answered 200), or the controller answers 400 ("badRequest")
SuggestReturns(rec, outcome, result) ==
    [rec EXCEPT !.pc = "done", !.outcome = outcome, !.result = result]

\* the service up to its axios.get: the length check, then geocodeCache.get
SuggestStart(rec) ==
    LET key == SuggestKey(rec.input, rec.type)
    IN IF TooShort(rec.input) THEN SuggestReturns(rec, "ok", "empty")
       ELSE IF key \in DOMAIN rec.cache
       THEN SuggestReturns([rec EXCEPT !.cacheOps = @ + 1], "ok", rec.cache[key])
       ELSE [rec EXCEPT !.cacheOps = @ + 1, !.pc = "provider"]

\* mapService.getAutoCompleteSuggestions(input, {type}) called directly
GetAutoCompleteSuggestions(input, type) ==
    /\ CanSuggest
    /\ suggest' = SuggestStart(SuggestCall("service", input, type))
    /\ UNCHANGED <<dispatchVars, pricingVars, generated, location>>

\* GET /get-suggestions?input=..&type=..: the route's validators, then the
\* controller: validationResult, the length check, the normalised type,
\* the service
GetSuggestions(input, type) ==
    /\ CanSuggest
    /\ LET rec == SuggestCall("http", input, type)
       IN suggest' = IF ~InputValidated(input)
                     THEN SuggestReturns(rec, "badRequest", NoSuggestions)
                     ELSE IF TooShort(input) THEN SuggestReturns(rec, "ok", "empty")
                     ELSE SuggestStart([rec EXCEPT !.type = NormalType(type)])
    /\ UNCHANGED <<dispatchVars, pricingVars, generated, location>>

\* the provider's answer reaches the call: an array is mapped, sorted,
\* cached and returned; anything else, and any error thrown on the way
\* (request failed, element without fields), ends in return []
SuggestProviderResponds(answer) ==
    /\ suggest.pc = "provider"
    /\ LET rec == [suggest EXCEPT !.calls = @ + 1, !.answer = answer]
           key == SuggestKey(rec.input, rec.type)
           result == IF answer = "items" THEN "list" ELSE "empty"
       IN suggest' = IF answer \in {"items", "noItems"}
                     THEN SuggestReturns([rec EXCEPT !.cacheOps = @ + 1,
                                                     !.cache = CacheSet(rec.cache, key, result)],
                                         "ok", result)
                     ELSE SuggestReturns(rec, "ok", "empty")
    /\ UNCHANGED <<dispatchVars, pricingVars, generated, location>>

\* geocodeCache = new NodeCache({stdTTL: 86400}): the entry is a day old
GeocodeCacheExpires(key) ==
    /\ key \in DOMAIN suggest.cache
    /\ suggest' = [suggest EXCEPT !.cache = CacheDel(suggest.cache, key)]
    /\ UNCHANGED <<dispatchVars, pricingVars, generated, location>>

SuggestNext ==
    \/ \E input \in Inputs, type \in SuggestTypes : GetAutoCompleteSuggestions(input, type)
    \/ \E input \in Inputs, type \in SuggestTypes : GetSuggestions(input, type)
    \/ \E answer \in SuggestAnswers : SuggestProviderResponds(answer)
    \/ \E key \in SuggestKeys : GeocodeCacheExpires(key)

\* ---------------------------------------------------- verification codes
\* only a code is generated
OtpInit ==
    /\ ServicesIdle
    /\ NothingElse

\* createRide: const otp = generateOTP(6), for the outcome x of the random source
GenerateOTP(x) ==
    /\ generated.pc = "idle"
    /\ generated' = [pc |-> "generated", otp |-> generateOTP(6, x)]
    /\ UNCHANGED <<dispatchVars, pricingVars, suggest, location>>

\* rideModel.create({..., otp, ...}): the schema validates otp; a code that
\* fails the validator fails the create
CreateRideOtp ==
    /\ generated.pc = "generated"
    /\ generated' = [generated EXCEPT !.pc = IF OtpValidator(generated.otp)
                                             THEN "created" ELSE "rejected"]
    /\ UNCHANGED <<dispatchVars, pricingVars, suggest, location>>

OtpNext ==
    \/ \E x \in Draws : GenerateOTP(x)
    \/ CreateRideOtp

\* ------------------------------------------------------ location updates
\* only one captain's location updates run
LocationInit ==
    /\ ServicesIdle
    /\ NothingElse

\* the update still to be handled, and the same update once updateLocation
\* has assigned captain.location and captain.lastLocationUpdate = new Date()
Update(seq, position, via) ==
    [seq |-> seq, position |-> position, via |-> via, pc |-> "sent", stamp |-> 0]

\* the captain's device sends its position: socket.emit('update:location',
\* {lat, lng}) or POST /location {location: {lat, lng}}
SendLocation(position, via) ==
    /\ location.sent < MaxUpdates
    /\ location' = [location EXCEPT
                      !.sent = @ + 1,
                      !.updates = @ \cup {Update(location.sent + 1, position, via)}]
    /\ UNCHANGED <<dispatchVars, pricingVars, suggest, generated>>

\* socket.on('update:location'): captainModel.findByIdAndUpdate(id,
\* {location, lastLocationUpdate: new Date()})
UpdateLocationSocket(u) ==
    /\ u \in location.updates
    /\ u.via = "socket"
    /\ location' = [location EXCEPT
                      !.now = @ + 1,
                      !.stored = u.position,
                      !.lastLocationUpdate = location.now + 1,
                      !.from = u.seq,
                      !.updates = @ \ {u}]
    /\ UNCHANGED <<dispatchVars, pricingVars, suggest, generated>>

\* updateLocation up to await captain.save(): captain.location = ...,
\* captain.lastLocationUpdate = new Date()
UpdateLocationAssign(u) ==
    /\ u \in location.updates
    /\ u.via = "http"
    /\ u.pc = "sent"
    /\ location' = [location EXCEPT
                      !.now = @ + 1,
                      !.updates = (@ \ {u}) \cup
                                  {[u EXCEPT !.pc = "assigned", !.stamp = location.now + 1]}]
    /\ UNCHANGED <<dispatchVars, pricingVars, suggest, generated>>

\* await captain.save(): the two assigned paths are written
UpdateLocationSave(u) ==
    /\ u \in location.updates
    /\ u.pc = "assigned"
    /\ location' = [location EXCEPT
                      !.stored = u.position,
                      !.lastLocationUpdate = u.stamp,
                      !.from = u.seq,
                      !.updates = @ \ {u}]
    /\ UNCHANGED <<dispatchVars, pricingVars, suggest, generated>>

LocationNext ==
    \/ \E position \in Positions, via \in {"socket", "http"} : SendLocation(position, via)
    \/ \E u \in location.updates : UpdateLocationSocket(u)
    \/ \E u \in location.updates : UpdateLocationAssign(u)
    \/ \E u \in location.updates : UpdateLocationSave(u)

\* -------------------------------------------------------------- accepts
\* two rides that wait for a captain, and only accepts arrive
TwoRides == {1, 2}

AcceptInit ==
    /\ rides = [r \in TwoRides |-> RideAt("requested")]
    /\ captains = [c \in Captains |-> [isAvailable |-> TRUE, connected |-> TRUE,
                                       fresh |-> TRUE]]
    /\ procs = [p \in Procs |-> Idle]
    /\ events = 0
    /\ fare = NoFare
    /\ routeCache = EmptyCache
    /\ route = Resting
    /\ ServicesIdle

\* the entry points of an accept: confirmRide (the service and the
\* controller) and the 'accepted' status update (socket and HTTP)
AcceptNext ==
    \/ \E p \in Procs, r \in TwoRides, c \in Captains, ctl \in BOOLEAN :
          ConfirmRide(p, r, c, ctl)
    \/ \E p \in Procs : ConfirmFindRide(p)
    \/ \E p \in Procs : ConfirmCheckCaptain(p)
    \/ \E p \in Procs : ConfirmMarkUnavailable(p)
    \/ \E p \in Procs : ConfirmCtlMarkUnavailable(p)
    \/ \E p \in Procs, via \in {"socket", "http"}, r \in TwoRides, c \in Captains :
          RideStatus(p, via, r, "Captain", c, "accepted", EmptyData)
    \/ \E p \in Procs : StatusUpdateCaptain(p)
    \/ \E p \in Procs : SaveRide(p)

\* ------------------------------------------------------- status updates
\* a ride at any stage, and only status updates arrive, over the socket
\* and over HTTP, while the estimated arrival time may pass
StatusNext ==
    \/ \E p \in Procs, via \in {"socket", "http"}, r \in Rides, c \in Captains,
          status \in Statuses :
          \E data \in DatasFor(status) : RideStatus(p, via, r, "Captain", c, status, data)
    \/ \E p \in Procs, via \in {"socket", "http"}, r \in Rides, u \in Users,
          status \in Statuses :
          \E data \in DatasFor(status) : RideStatus(p, via, r, "User", u, status, data)
    \/ \E p \in Procs : StatusUpdateCaptain(p)
    \/ \E p \in Procs : SaveRide(p)
    \/ \E r \in Rides : EtaExpires(r)

\* ------------------------------------------------------- specification
Next ==
    \/ \E p \in Procs, u \in Users \cup {NoUser}, vt \in VehicleTypes,
          valid, fareOk, routeOk \in BOOLEAN : CreateRide(p, u, vt, valid, fareOk, routeOk)
    \/ \E p \in Procs : CreateRideCreate(p)
    \/ \E p \in Procs : CreateRideNotify(p)
    \/ \E p \in Procs, u \in Users \cup {NoUser}, vt \in VehicleTypes, valid \in BOOLEAN :
          NewRide(p, u, vt, valid)
    \/ \E p \in Procs, r \in Rides, c \in Captains, ctl \in BOOLEAN :
          ConfirmRide(p, r, c, ctl)
    \/ \E p \in Procs : ConfirmFindRide(p)
    \/ \E p \in Procs : ConfirmCheckCaptain(p)
    \/ \E p \in Procs : ConfirmMarkUnavailable(p)
    \/ \E p \in Procs : ConfirmCtlMarkUnavailable(p)
    \/ \E p \in Procs, r \in Rides, c \in Captains, otp \in Codes \cup {WrongCode, NoCode},
          ctl \in BOOLEAN : StartRide(p, r, c, otp, ctl)
    \/ \E p \in Procs, r \in Rides, c \in Captains : EndRide(p, r, c)
    \/ \E p \in Procs, r \in Rides, u \in Users, reason \in Reasons \cup {NoReason} :
          CancelRide(p, r, u, reason)
    \/ \E p \in Procs, r \in Rides, u \in Users \cup {OtherUser} : RateRide(p, r, u)
    \/ \E p \in Procs, via \in {"socket", "http"}, r \in Rides, c \in Captains,
          status \in Statuses :
          \E data \in DatasFor(status) : RideStatus(p, via, r, "Captain", c, status, data)
    \/ \E p \in Procs, via \in {"socket", "http"}, r \in Rides, u \in Users,
          status \in Statuses :
          \E data \in DatasFor(status) : RideStatus(p, via, r, "User", u, status, data)
    \/ \E p \in Procs : StatusUpdateCaptain(p)
    \/ \E p \in Procs : SaveRide(p)
    \/ \E r \in Rides : EtaExpires(r)
    \/ \E c \in Captains : SocketConnect(c)
    \/ \E c \in Captains : SocketDisconnect(c)
    \/ \E c \in Captains, v \in BOOLEAN : UpdateAvailability(c, v)
    \/ \E c \in Captains : UpdateLastSeen(c)
    \/ \E c \in Captains : LastSeenExpires(c)

Spec == Init /\ [][Next]_vars

\* the fare functions on their own
FareSpec == FareInit /\ [][FareNext]_vars

\* the route functions on their own
RouteSpec == RouteInit /\ [][RouteNext]_vars

\* the autocomplete functions on their own
SuggestSpec == SuggestInit /\ [][SuggestNext]_vars

\* the generation of a ride's verification code on its own
OtpSpec == OtpInit /\ [][OtpNext]_vars

\* one captain's location updates on their own
LocationSpec == LocationInit /\ [][LocationNext]_vars

\* the two status handlers on their own
StatusSpec == Init /\ [][StatusNext]_vars

\* accepts of two requested rides on their own
AcceptSpec == AcceptInit /\ [][AcceptNext]_vars

\* ------------------------------------------------------------ properties
Active == {"accepted", "on-the-way", "in-progress"}
Assigned == Active \cup {"completed"}
Terminal == {"completed", "cancelled"}
StatusKinds == {"rideStatus", "updateRideStatus"}

\* the edges of the ride life cycle as specified
SpecEdges == {<<"requested", "accepted">>, <<"accepted", "on-the-way">>,
              <<"accepted", "in-progress">>, <<"on-the-way", "in-progress">>,
              <<"in-progress", "completed">>, <<"requested", "cancelled">>,
              <<"accepted", "cancelled">>}

AcceptOp(rec) == rec.kind = "confirmRide" \/ (rec.kind \in StatusKinds /\ rec.target = "accepted")
CompleteOp(rec) == rec.kind = "endRide" \/ (rec.kind \in StatusKinds /\ rec.target = "completed")
CancelOp(rec) == rec.kind = "cancelRide" \/ (rec.kind \in StatusKinds /\ rec.target = "cancelled")

Quiescent == \A p \in Procs : ~InFlight(p)
Succeeded(p) == procs[p].pc = "done" /\ procs[p].result = "ok"

\* this step is the ride.save() of request p and it stored the document
Commits(p) ==
    /\ procs[p].pc = "saveRide"
    /\ procs'[p].pc # "saveRide"
    /\ procs'[p].result # "validationError"

\* this step is the arrival of a request, in slot p
Started(p) == ~InFlight(p) /\ procs'[p].pc # "idle" /\ events' # events

\* this step is the one in which request p returns
Returned(p) == procs'[p].pc = "done" /\ (InFlight(p) \/ Started(p))

\* C1: of two confirmRide calls by distinct captains that ran concurrently
\* on one ride and have both returned, exactly one succeeded, and the
\* ride's captain is the one that succeeded and is marked unavailable
C1_ExactlyOneAcceptWins ==
    \A p, q \in Procs :
       (/\ p # q
        /\ procs[p].pc = "done" /\ procs[p].kind = "confirmRide"
        /\ procs[q].pc = "done" /\ procs[q].kind = "confirmRide"
        /\ procs[p].ride = procs[q].ride
        /\ procs[p].callerId # procs[q].callerId
        /\ Succeeded(p))
       => /\ ~Succeeded(q)
          /\ rides[procs[p].ride].captain = procs[p].callerId
          /\ ~captains[procs[p].callerId].isAvailable

\* C2: the stored status of a ride changes only along the specified edges
C2_OnlySpecifiedEdges ==
    [][\A r \in Rides :
         rides[r].status # NoRide /\ rides'[r].status # rides[r].status
         => <<rides[r].status, rides'[r].status>> \in SpecEdges]_vars

\* C3: a ride has a captain exactly when its status is accepted,
\* on-the-way, in-progress or completed
C3_CaptainIffAssigned ==
    \A r \in Rides :
       rides[r].status # NoRide
       => (rides[r].captain # NoCaptain <=> rides[r].status \in Assigned)

\* C4: whenever no request is in flight, the captain of a ride that is
\* accepted, on-the-way or in-progress is marked unavailable
C4_ActiveCaptainUnavailable ==
    Quiescent =>
       \A r \in Rides :
          rides[r].status \in Active /\ rides[r].captain \in Captains
          => ~captains[rides[r].captain].isAvailable

\* C5: when a complete returns successfully, the ride's captain is
\* marked available
C5_CompleteReleasesCaptain ==
    [][\A p \in Procs :
         Returned(p) /\ procs'[p].result = "ok" /\ CompleteOp(procs'[p])
         => LET c == rides'[procs'[p].ride].captain
            IN c \in Captains => captains'[c].isAvailable]_vars

\* C6: when a cancel returns successfully for a ride that has a captain,
\* that captain is marked available
C6_CancelReleasesCaptain ==
    [][\A p \in Procs :
         Returned(p) /\ procs'[p].result = "ok" /\ CancelOp(procs'[p])
         => LET c == rides'[procs'[p].ride].captain
            IN c \in Captains => captains'[c].isAvailable]_vars

\* C7: when a rider's cancel sent as a status update and an accept have
\* run concurrently on one ride, have both succeeded and the ride has
\* ended cancelled, the accepting captain is marked available
C7_CancelRacingAcceptReleases ==
    \A p, q \in Procs :
       (/\ Succeeded(p) /\ CancelOp(procs[p]) /\ procs[p].kind \in StatusKinds
        /\ procs[p].callerType = "User"
        /\ Succeeded(q) /\ AcceptOp(procs[q])
        /\ procs[p].ride = procs[q].ride
        /\ rides[procs[p].ride].status = "cancelled")
       => captains[procs[q].callerId].isAvailable

\* C8: a request stores a ride only while the stored status still is the
\* status it loaded
C8_NoStaleCommit ==
    [][\A p \in Procs :
         Commits(p) => rides[procs[p].ride].status = procs[p].snapStatus]_vars

\* C9: a ride becomes in-progress only by a request that supplied the
\* ride's stored code
C9_InProgressNeedsCode ==
    [][\A r \in Rides :
         rides[r].status # "in-progress" /\ rides'[r].status = "in-progress"
         => \E p \in Procs :
               Commits(p) /\ procs[p].ride = r /\ procs[p].otp = rides[r].otp]_vars

\* C10: a cancel that arrives for a completed or cancelled ride returns at
\* once with the entry point's error (not found from cancelRide, invalid
\* transition from a status update) and changes no ride and no captain
C10_CancelOnTerminalFails ==
    [][\A p \in Procs :
         (/\ Started(p)
          /\ CancelOp(procs'[p])
          /\ rides[procs'[p].ride].status \in Terminal)
         => /\ procs'[p].pc = "done"
            /\ procs'[p].result = IF procs'[p].kind = "cancelRide" THEN "notFound"
                                  ELSE "invalidTransition"
            /\ rides' = rides
            /\ captains' = captains]_vars

\* a cancel, run alone, has failed on a completed ride
C10_Witness ==
    \E p \in Procs :
       /\ procs[p].pc = "done" /\ CancelOp(procs[p])
       /\ procs[p].result \in {"notFound", "invalidTransition"}
       /\ rides[procs[p].ride].status = "completed"
       /\ \A q \in Procs : q # p => procs[q] = Idle

\* the request has passed every check of its handler and is suspended at
\* one of its writes
WillWrite(rec) ==
    rec.pc \in {"updateCaptain", "saveRide", "markUnavailable", "ctlMarkUnavailable"}

\* C11: an accept that arrives from a captain whose isAvailable flag is
\* false, for a requested ride, is not let through to the handler's writes
C11_UnavailableAcceptFails ==
    [][\A p \in Procs :
         (/\ Started(p)
          /\ AcceptOp(procs'[p])
          /\ procs'[p].callerType = "Captain"
          /\ ~captains[procs'[p].callerId].isAvailable
          /\ rides[procs'[p].ride].status = "requested")
         => ~WillWrite(procs'[p])]_vars

\* the errors an accept on a ride that is no longer requested ends with
ConflictErrors == {"notFound", "unavailable", "invalidTransition"}

\* C12: an accept that arrives after the ride has left requested (and so
\* never loads it as requested) changes no ride, never succeeds and ends
\* with an error
C12_LaterAcceptFails ==
    [][\A p \in Procs :
         (/\ AcceptOp(procs'[p])
          /\ procs'[p] # procs[p]
          /\ procs[p].snapStatus # "requested"
          /\ procs'[p].snapStatus # "requested"
          /\ rides[procs'[p].ride].status \in Statuses \ {"requested"})
         => /\ rides' = rides
            /\ procs'[p].pc \in {"done", "findRide"}
            /\ procs'[p].pc = "done" => procs'[p].result \in ConflictErrors]_vars

\* a confirmRide has failed as not found on a ride that has its captain
C12_Witness ==
    \E p \in Procs :
       /\ procs[p].pc = "done" /\ procs[p].kind = "confirmRide"
       /\ procs[p].result = "notFound"
       /\ rides[procs[p].ride].status = "accepted"
       /\ rides[procs[p].ride].captain \in Captains

\* C13: while a ride is accepted or on-the-way, a start by its captain with
\* the ride's code is let through to the save, by startRide (service and
\* controller) and by an 'in-progress' status update (socket and HTTP)
C13_StartFromAcceptedOrOnTheWay ==
    \A r \in Rides, p \in Procs :
       (/\ rides[r].status \in {"accepted", "on-the-way"}
        /\ rides[r].captain \in Captains
        /\ captains[rides[r].captain].connected
        /\ Free(p))
       => LET c == rides[r].captain
              data == [EmptyData EXCEPT !.otp = rides[r].otp]
          IN /\ \A ctl \in BOOLEAN :
                  ENABLED (StartRide(p, r, c, rides[r].otp, ctl)
                           /\ procs'[p].pc = "saveRide")
             /\ \A via \in {"socket", "http"} :
                  ENABLED (RideStatus(p, via, r, "Captain", c, "in-progress", data)
                           /\ procs'[p].pc = "saveRide")

\* C14: a status update to on-the-way, in-progress or completed is stored
\* only for a caller who is the captain assigned to the ride
C14_OnlyAssignedCaptainMoves ==
    [][\A p \in Procs :
         (/\ Commits(p)
          /\ procs[p].kind \in StatusKinds
          /\ procs[p].target \in {"on-the-way", "in-progress", "completed"})
         => /\ procs[p].callerType = "Captain"
            /\ procs[p].callerId = rides[procs[p].ride].captain]_vars

\* the outcomes of a new-ride request that ended before rideModel.create
PreCreateFailures == {"badRequest", "userNotFound", "fareFailed", "routeFailed"}

\* C15: a ride document appears only by the create of a new-ride request
\* whose fare computation has succeeded, and a new-ride request that fails
\* in validation, user lookup, fare computation or route lookup leaves
\* every ride and captain as it was and emits nothing
C15_CreateOnlyAfterFare ==
    [][/\ \A r \in Rides :
            rides[r].status = NoRide /\ rides'[r].status # NoRide
            => \E p \in Procs :
                  /\ procs[p].kind = "createRide" /\ procs[p].pc = "create"
                  /\ procs[p].fareKnown
                  /\ procs'[p].ride = r
       /\ \A p \in Procs :
            (/\ Returned(p)
             /\ procs'[p].kind = "createRide"
             /\ procs'[p].result \in PreCreateFailures)
            => /\ rides' = rides
               /\ captains' = captains
               /\ procs'[p].ride \notin Rides
               /\ procs'[p].emitted = NoNotice]_vars

\* a new-ride request has ended at the fare computation and there is no ride
C15_Witness ==
    \E p \in Procs :
       /\ procs[p].pc = "done" /\ procs[p].kind = "createRide"
       /\ procs[p].result = "fareFailed"
       /\ \A r \in Rides : rides[r].status = NoRide

\* the request is past its ride.save(): it is suspended at a later await
Saved(rec) == rec.pc \in {"markUnavailable", "ctlMarkUnavailable"}

\* the handlers that move a ride along its life cycle
TransitionKinds == {"confirmRide", "startRide", "endRide", "cancelRide"} \cup StatusKinds

\* C16: a request emits the events about a transition only in or after the
\* step that stored its ride (createRide: after the ride was created), and
\* when the emit throws, the ride and the captains are exactly as the
\* handler's writes left them
C16_NotifyAfterSave ==
    [][\A p \in Procs :
         /\ (/\ procs'[p].kind \in TransitionKinds
             /\ procs'[p] # procs[p]
             /\ procs'[p].emitted # NoNotice)
            => /\ Saved(procs[p]) \/ Commits(p)
               /\ procs[p].kind \in StatusKinds
                  => rides'[procs[p].ride].status = procs[p].target
         /\ (/\ procs'[p].kind = "createRide"
             /\ procs'[p] # procs[p]
             /\ procs'[p].emitted # NoNotice)
            => /\ procs[p].ride \in Rides
               /\ rides[procs[p].ride].status # NoRide
         /\ (Returned(p) /\ procs'[p].result = "emitError")
            => /\ rides' = IF procs[p].pc = "saveRide"
                           THEN [rides EXCEPT ![procs[p].ride] =
                                   Written(procs[p], rides[procs[p].ride])]
                           ELSE rides
               /\ captains' = IF procs[p].pc = "ctlMarkUnavailable"
                              THEN SetAvailable(procs[p].callerId, FALSE)
                              ELSE captains]_vars

\* a request whose emit threw has returned and the ride has the status the
\* request stored
C16_Witness ==
    \E p \in Procs :
       /\ procs[p].pc = "done" /\ procs[p].result = "emitError"
       /\ procs[p].kind \in TransitionKinds
       /\ rides[procs[p].ride].status = procs[p].target

\* this step is a write of request p to a captain's isAvailable flag
CaptainUpdate(p) ==
    /\ procs[p].pc \in {"updateCaptain", "markUnavailable", "ctlMarkUnavailable"}
    /\ procs'[p].pc # procs[p].pc

\* C17: a request writes a captain's isAvailable flag only after its
\* ride.save() has stored the new status
C17_FlagAfterRideCommit ==
    [][\A p \in Procs : CaptainUpdate(p) => Saved(procs[p])]_vars

\* the status handler has written the captain's flag and not yet the ride
UpdatedCaptainOnly(rec) ==
    /\ rec.kind \in StatusKinds
    /\ rec.pc = "saveRide"
    /\ \/ rec.target \in {"accepted", "completed"}
       \/ rec.target = "cancelled" /\ rec.snapCaptain # NoCaptain

\* C18: an accept, complete or cancel whose ride.save() is rejected has not
\* written the captain's flag either
C18_FailedTransitionWritesNothing ==
    [][\A p \in Procs :
         (/\ Returned(p)
          /\ procs'[p].result = "validationError"
          /\ AcceptOp(procs[p]) \/ CompleteOp(procs[p]) \/ CancelOp(procs[p]))
         => ~UpdatedCaptainOnly(procs[p])]_vars

\* the requests that announce a new ride
NewRideKinds == {"createRide", "newRide"}

\* C19: a new-ride request that has notified sent 'new-ride' to the channels
\* of exactly the captains eligible for the ride's vehicle class
C19_NewRideToEligibleOnly ==
    [][\A p \in Procs :
         (/\ Returned(p)
          /\ procs'[p].kind \in NewRideKinds
          /\ procs'[p].result = "ok")
         => \A s \in Subscribers :
               procs'[p].emitted[s] > 0
               <=> s[1] = "Captain" /\ s[2] \in Eligible(procs'[p].vehicle)]_vars

\* C20: a new-ride request with an eligible captain sends 'new-ride' to no
\* channel more than once
C20_NewRideAtMostOnce ==
    [][\A p \in Procs :
         (/\ Returned(p)
          /\ procs'[p].kind \in NewRideKinds
          /\ Eligible(procs'[p].vehicle) # {})
         => \A s \in Subscribers : procs'[p].emitted[s] <= 1]_vars

\* C21: a new-ride request that went through while no captain was eligible
\* for the ride's vehicle class has sent the rider's channel the no-drivers
\* notice, by createRide and by the socket 'new:ride'
C21_NoDriversNotice ==
    [][\A p \in Procs :
         (/\ Returned(p)
          /\ procs'[p].kind \in NewRideKinds
          /\ procs'[p].result \in {"ok", "noDrivers"}
          /\ Eligible(procs'[p].vehicle) = {})
         => procs'[p].noDrivers \in Users]_vars

\* the request came in through a route or a socket event (the service
\* functions confirmRide and startRide are also modelled called directly)
ThroughHandler(rec) == rec.kind \notin {"confirmRide", "startRide"} \/ rec.ctl

\* C22: a request that has stored a new status of a ride and answered with
\* success has notified the rider's channel and, when the stored ride has a
\* captain, that captain's channel
C22_EveryChangeNotified ==
    [][\A p \in Procs :
         (/\ Returned(p)
          /\ procs'[p].kind \in TransitionKinds
          /\ ThroughHandler(procs[p])
          /\ procs'[p].result = "ok")
         => LET d == rides'[procs'[p].ride]
            IN /\ procs'[p].emitted[<<"User", d.user>>] >= 1
               /\ d.captain \in Captains
                  => procs'[p].emitted[<<"Captain", d.captain>>] >= 1]_vars

\* C23: no query that selects captains for a ride request returns a captain
\* whose lastSeen is older than the freshness window
C23_QueriesExcludeStale ==
    \A c \in Captains :
       ~captains[c].fresh
       => /\ \A vt \in VehicleTypes : c \notin Eligible(vt)
          /\ c \notin ActiveCaptains
          /\ \A vt \in VehicleTypes \cup {AnyVehicle} : c \notin getCaptainsInTheRadius(vt)

\* the limits of a fare of a class: [2 * base, 10 * base], in steps of 10
FareInRange(type, amount) ==
    /\ amount >= 2 * baseFare[type]
    /\ amount <= 10 * baseFare[type]
    /\ amount % 10 = 0

C25_MinimumsBeforeFormula ==
    /\ fare.quote # NoQuote
       => \A type \in validVehicleTypes :
             fare.quoteBeforeLimits[type] =
                FareBeforeLimits(type, Max(fare.distance, 1000), Max(fare.duration, 300),
                                 fare.quoteSurge)
    /\ fare.stored # NoAmount
       => fare.storedBeforeLimits =
             FareBeforeLimits(fare.vehicleType, Max(fare.distance, 1000),
                              Max(fare.duration, 300), fare.storedSurge)

\* the multiplier as specified, in tenths
SpecifiedSurge(h) ==
    IF h \in (7 .. 9) \cup (17 .. 19) THEN 15
    ELSE IF h \in (22 .. 23) \cup (0 .. 5) THEN 13
    ELSE 10

\* C26: the multiplier getFare returns, the one createRide applies and the
\* one getTrafficMultiplier returns (computed or cached) are each 1.5 in
\* hours 7..9 and 17..19, 1.3 in hours 22..23 and 0..5, and 1.0 otherwise
C26_SurgeByHour ==
    /\ fare.quoteSurge # NoAmount => fare.quoteSurge = SpecifiedSurge(fare.hour)
    /\ fare.storedSurge # NoAmount => fare.storedSurge = SpecifiedSurge(fare.hour)
    /\ fare.multiplier # NoAmount => fare.multiplier = SpecifiedSurge(fare.hour)

\* at 5 o'clock, the last late-night hour, all three places have answered
\* 1.3, getTrafficMultiplier from its cache
C26_Witness ==
    /\ fare.hour = 5
    /\ fare.quoteSurge = 13
    /\ fare.storedSurge = 13
    /\ fare.multiplier = 13
    /\ fare.multiplierFrom = "cache"

\* the two route operations
RouteOps == {"getDistanceTime", "getRouteDetails"}

\* C27: a route operation on valid coordinates whose provider call failed
\* returns an estimate instead of raising an error
C27_FallbackWhenProviderFails ==
    (/\ route.op \in RouteOps
     /\ route.pc = "done"
     /\ Shape(route.coords) = "valid"
     /\ route.calls > 0
     /\ route.answer = "fail")
    => /\ route.outcome = "ok"
       /\ route.result \in Results

\* C28: the retry loop of createRide calls getRouteDetails at most
\* maxRetries times
C28_RetryLoopBounded ==
    route.op = "createRide" => route.attempts <= maxRetries

\* the entries cached for a pair of coordinates
CachedFor(coords) == {k \in DOMAIN routeCache : k[2] = coords}

\* C29: a route call for coordinates that have a cache entry returns the
\* cached result without a provider call; an entry changes only by leaving
\* the cache, and leaves it only by expiry, with no call involved
C29_CachedWithinTtl ==
    [][/\ (/\ route'.served = route.served + 1
           /\ route'.op \in RouteOps
           /\ CachedFor(route'.coords) # {})
          => /\ route'.pc = "done"
             /\ route'.outcome = "ok"
             /\ \E k \in CachedFor(route'.coords) : route'.result = routeCache[k]
       /\ \A k \in Keys :
             (/\ k \in DOMAIN routeCache
              /\ CacheGet(routeCache', k) # routeCache[k])
             => k \notin DOMAIN routeCache' /\ route' = route]_vars

\* C30: a route operation given coordinates that are not two finite numbers
\* in range fails as invalid input without a provider call, and no cache
\* entry is ever stored for such coordinates
C30_InvalidCoordinatesRejected ==
    /\ (route.op \in RouteOps /\ Shape(route.coords) # "valid")
       => /\ route.pc = "done"
          /\ route.outcome = "invalidInput"
          /\ route.calls = 0
    /\ \A k \in DOMAIN routeCache : Shape(k[2]) = "valid"

\* C31: an autocomplete call never ends in an error: it returns a list; for
\* an input that is absent, empty or shorter than 3 characters it returns
\* the empty list with no provider call and no cache access; when the
\* provider failed or answered with something that is no array it returns
\* the empty list
C31_SuggestionsNeverFail ==
    suggest.pc = "done"
    => /\ suggest.outcome = "ok"
       /\ suggest.result \in SuggestResults
       /\ TooShort(suggest.input)
          => suggest.result = "empty" /\ suggest.calls = 0 /\ suggest.cacheOps = 0
       /\ (suggest.calls > 0 /\ suggest.answer \in {"notArray", "nullItem", "fail"})
          => suggest.result = "empty"

\* C32: every code generated for a ride is a string of exactly 6 decimal
\* digits that does not start with 0 (a value in 100000..999999), whatever
\* the random source draws, and passes the schema's validator at the create
C32_CodeSixDigits ==
    generated.pc # "idle"
    => /\ OtpValidator(generated.otp)
       /\ generated.otp[1] # "0"
       /\ generated.pc # "rejected"

\* the largest code, 999999, was generated and the ride created with it
C32_Witness ==
    /\ generated.pc = "created"
    /\ generated.otp = <<"9", "9", "9", "9", "9", "9">>

\* C35: once every location update the captain's device sent has been
\* handled, the stored location is that of the update sent last
C35_NewestLocationWins ==
    (location.sent >= 2 /\ location.updates = {})
    => location.from = location.sent

\* C33: a ride gets its code when it is created, and no step of any
\* operation, successful or failed, changes the code of a ride that exists
C33_CodeNeverChanges ==
    [][\A r \in Rides :
         /\ (rides[r].status = NoRide /\ rides'[r].status # NoRide)
            => rides'[r].otp \in Codes
         /\ rides[r].status # NoRide => rides'[r].otp = rides[r].otp]_vars

\* a ride that was started with its code has been completed and rated, and
\* still has the code
C33_Witness ==
    \E p \in Procs :
       /\ Succeeded(p) /\ procs[p].kind = "rateRide"
       /\ rides[procs[p].ride].status = "completed"
       /\ rides[procs[p].ride].otp \in Codes

\* C34: rateRide goes on to its save, and so can succeed, only for a ride
\* that exists, is completed and belongs to the calling rider; a rateRide
\* that fails leaves every ride as it was
C34_RateOnlyCompletedOwn ==
    [][\A p \in Procs :
         /\ (Started(p) /\ procs'[p].kind = "rateRide" /\ procs'[p].pc # "done")
            => /\ rides[procs'[p].ride].status = "completed"
               /\ rides[procs'[p].ride].user = procs'[p].callerId
         /\ (Returned(p) /\ procs'[p].kind = "rateRide" /\ procs'[p].result = "ok")
            => /\ procs[p].kind = "rateRide" /\ procs[p].pc = "saveRide"
               /\ procs[p].snapStatus = "completed"
         /\ (Returned(p) /\ procs'[p].kind = "rateRide" /\ procs'[p].result # "ok")
            => rides' = rides]_vars

\* a rateRide has failed as not found on a cancelled ride
C34_Witness ==
    \E p \in Procs :
       /\ procs[p].pc = "done" /\ procs[p].kind = "rateRide"
       /\ procs[p].result = "notFound"
       /\ rides[procs[p].ride].status = "cancelled"

\* the rides captain c is assigned to that are accepted, on-the-way or
\* in-progress
ActiveRidesOf(c) ==
    {r \in DOMAIN rides : rides[r].status \in Active /\ rides[r].captain = c}

\* C36: no captain is the assigned captain of more than one ride that is
\* accepted, on-the-way or in-progress
C36_OneActiveRidePerCaptain ==
    \A c \in Captains : Cardinality(ActiveRidesOf(c)) <= 1

\* C37: whenever no accept is in flight, every captain whose isAvailable
\* flag is false (only accepts cleared flags) is the captain of a ride
C37_UnavailableOnlyIfAssigned ==
    Quiescent => \A c \in Captains : ~captains[c].isAvailable => ActiveRidesOf(c) # {}

\* C38: for one route, hour and vehicle class, the amount getFare quotes
\* for the class (the fare sent in 'new-ride') equals the amount createRide
\* stores with the ride
C38_QuoteEqualsStored ==
    (fare.quote # NoQuote /\ fare.stored # NoAmount)
    => fare.quote[fare.vehicleType] = fare.stored

\* who can send a status update
Callers == {<<"Captain", c>> : c \in Captains} \cup {<<"User", u>> : u \in Users}

\* two requests differ at most in which handler runs them
SameButHandler(a, b) == [a EXCEPT !.kind = "status"] = [b EXCEPT !.kind = "status"]

C40_RejectedUpdateWritesNothing ==
    [][\A p \in Procs :
         (/\ Returned(p)
          /\ procs'[p].kind \in StatusKinds
          /\ procs'[p].result \in {"invalidTransition", "forbidden", "invalidCode"})
         => /\ rides' = rides
            /\ \A c \in Captains : captains'[c].isAvailable = captains[c].isAvailable]_vars

\* an 'in-progress' update with a wrong code has been rejected over HTTP
\* and the ride is still on-the-way
C40_Witness ==
    \E p \in Procs :
       /\ procs[p].pc = "done" /\ procs[p].kind = "updateRideStatus"
       /\ procs[p].result = "invalidCode"
       /\ rides[procs[p].ride].status = "on-the-way"

====
